---- MODULE Spec2Model ----
(***************************************************************************)
(* A model of the klish console client (src/bin/clish.cpp): main() with    *)
(* its option parsing, shell set-up, input-source pushes, dispatch loop    *)
(* and exit status, and the KTP transport session (ktp_session_new/free/   *)
(* connected/get_socket/bad_socket).  The shell library behind the         *)
(* clish_shell_* calls and the session's send/receive are not part of the  *)
(* source file; they are modelled from the design document and marked so.  *)
(***************************************************************************)
EXTENDS Integers, Sequences, FiniteSets, TLC

\* ------------------------------------------------------------------ bounds
MaxFiles == 2     \* trailing file arguments
MaxCmds == 2      \* command lines one source yields before end of input
MaxSock == 1      \* largest socket descriptor tried
MinSock == 2      \* descriptors go down to -MinSock

\* --------------------------------------------------------------- constants
BOOL_FALSE == 0
BOOL_TRUE == 1
RESULT_INIT == 0 - 1      \* int result = -1;
EXIT_OK == 0
EXIT_FAIL == 0 - 1        \* return -1; exit(-1);

\* session states (enum of klish/ktp_session.h, named by the design document)
KTP_SESSION_STATE_NOT_AUTHORIZED == "NotAuthorized"
KTP_SESSION_STATE_AUTHORIZED == "Authorized"
KTP_SESSION_STATE_DISCONNECTED == "Disconnected"

\* the null pointer: a session handle that designates no session
NULL == [state |-> "NULL", fd |-> 0 - 1]

Socks == (0 - MinSock) .. MaxSock

\* connecting to the daemon's socket path: -1, or the new descriptor
ConnectResults == {0 - 1, MaxSock}

\* what the socket does during one framed transfer: completes, completes
\* after a short read/write was retried, or signals closure (at once or
\* after a short transfer)
NetEvents == {"ok", "short_ok", "closed", "short_closed"}

VARIABLES
    pc,             \* position of main()
    stop_on_error,  \* main's local
    quiet,          \* main's local
    utf8,           \* main's local
    bit8,           \* main's local
    my_hooks,       \* the static hook table
    outfd,          \* main's output stream: "stdout", "open", "NULL", "closed"
    shell,          \* "none", "live", "deleted"
    stack,          \* the shell's stack of input sources, top first
    failed,         \* the loop's aggregate: some source ended on an error
    result,         \* main's local int result
    exitStatus,     \* the process exit status, once pc = "exited": <<status>>
    exitPath,       \* history: the statement that ended the process
    opt_d,          \* history: -d was among the options
    opt_e,          \* history: -e was among the options
    argfiles,         \* argc - optind: the number of trailing file arguments
    session,        \* the transport session handle
    log,            \* history: the commands executed, in order
    last,           \* history: detail of the last command executed
    errs,           \* history: <<source, result>> of the commands that did not succeed
    lastOp          \* history: the last session operation and its outcome

vars == <<pc, stop_on_error, quiet, utf8, bit8, my_hooks, outfd, shell,
          stack, failed, result, exitStatus, exitPath, opt_d, opt_e, argfiles,
          session, log, last, errs, lastOp>>

mainVars == <<pc, stop_on_error, quiet, utf8, bit8, my_hooks, outfd,
              shell, stack, failed, result, exitStatus, exitPath, opt_d, opt_e,
              argfiles, log, last, errs>>

\* ======================================================= transport session

\* ktp_session_new(): allocOk is whether faux_zmalloc returned memory
ktp_session_new_any_sock(sock, allocOk) ==
    IF ~allocOk THEN NULL
    ELSE [state |-> KTP_SESSION_STATE_NOT_AUTHORIZED, fd |-> sock]

ktp_session_new(sock, allocOk) ==
    IF sock < 0 THEN NULL
    ELSE IF ~allocOk THEN NULL
    ELSE [state |-> KTP_SESSION_STATE_NOT_AUTHORIZED, fd |-> sock]

\* ktp_session_free(): the handle the caller is left with
ktp_session_free(s) == NULL

ktp_session_connected_always(s) == TRUE

ktp_session_connected_inverted(s) ==
    IF s = NULL THEN FALSE
    ELSE IF KTP_SESSION_STATE_DISCONNECTED = s.state THEN TRUE
    ELSE FALSE

ktp_session_connected(s) ==
    IF s = NULL THEN FALSE
    ELSE IF KTP_SESSION_STATE_DISCONNECTED = s.state THEN FALSE
    ELSE TRUE

ktp_session_get_socket(s) ==
    IF s = NULL THEN BOOL_FALSE
    ELSE s.fd

\* ktp_session_bad_socket() (under #if 0 in the source)
ktp_session_bad_socket_noop(s) == s

ktp_session_bad_socket(s) ==
    IF s = NULL THEN s
    ELSE [s EXCEPT !.state = KTP_SESSION_STATE_DISCONNECTED]

NetClosed(net) == net \in {"closed", "short_closed"}

\* one framed transfer, send or receive alike: the session afterwards, the
\* error and whether the socket was touched
ktp_session_transfer(s, net) ==
    IF ~ktp_session_connected(s)
    THEN [session |-> s, err |-> "NotConnected", io |-> FALSE]
    ELSE IF NetClosed(net)
    THEN [session |-> ktp_session_bad_socket(s), err |-> "ConnectionLost", io |-> TRUE]
    ELSE [session |-> s, err |-> "None", io |-> TRUE]

ktp_session_send(s, net) == ktp_session_transfer(s, net)

ktp_session_receive(s, net) == ktp_session_transfer(s, net)

\* a request and its answer: send, then receive unless the send failed
ktp_session_exchange(s, netS, netR) ==
    LET snd == ktp_session_send(s, netS)
    IN  IF snd.err # "None" THEN snd
        ELSE ktp_session_receive(snd.session, netR)

\* the authentication exchange: credentials out, verdict in; a refusal is a
\* protocol error
ktp_session_auth(s, netS, netR, accepted) ==
    LET x == ktp_session_exchange(s, netS, netR)
    IN  IF x.err # "None" THEN x
        ELSE IF ~accepted
        THEN [session |-> ktp_session_bad_socket(x.session),
              err |-> "ConnectionLost", io |-> TRUE]
        ELSE [x EXCEPT !.session.state = KTP_SESSION_STATE_AUTHORIZED]

\* the inputs of a session operation, those it does not take at their defaults
NoIn == [sock |-> 0, alloc |-> TRUE, netS |-> "ok", netR |-> "ok", accepted |-> TRUE]

NoOp == [op |-> "none", pre |-> "NULL", in |-> NoIn, err |-> "None", io |-> FALSE,
         ret |-> 0]

OpRec(op, pre, in, err, io, ret) ==
    [op |-> op, pre |-> pre.state, in |-> in, err |-> err, io |-> io, ret |-> ret]

\* ================================================================ hooks

\* static clish_shell_hooks_t my_hooks = { ... }
my_hooks_init ==
    [init_fn |-> "NULL",
     access_fn |-> "clish_access_callback",
     cmd_line_fn |-> "NULL",
     script_fn |-> "clish_script_callback",
     fini_fn |-> "NULL",
     config_fn |-> "clish_config_callback",
     cmd_list |-> "NULL"]

\* case 'd': of the option switch
OptDryRun_keep(hooks) == hooks

OptDryRun_clear(hooks) == [hooks EXCEPT !.script_fn = "NULL"]

OptDryRun(hooks) == [hooks EXCEPT !.script_fn = "clish_dryrun_callback"]

\* what one command line turns out to be and what its stages meet:
\* how the scheme resolves it, whether access is granted, whether its action
\* script would succeed, whether that script would change state, whether the
\* command has a configuration effect, and the socket's behaviour while the
\* delta is sent and the acknowledgement received
ResolveErrs == {"UnknownCommand", "SyntaxError"}

CmdBase ==
    [resolve |-> "ok", access |-> TRUE, script |-> TRUE, mutates |-> TRUE,
     hasConfig |-> FALSE, netS |-> "ok", netR |-> "ok"]

CmdInputs ==
    {[CmdBase EXCEPT !.resolve = r] : r \in ResolveErrs}
    \cup {[CmdBase EXCEPT !.access = FALSE]}
    \cup {[CmdBase EXCEPT !.script = sc, !.mutates = m] : sc \in BOOLEAN, m \in BOOLEAN}
    \cup {[CmdBase EXCEPT !.script = sc, !.hasConfig = TRUE, !.netS = a, !.netR = b] :
            sc \in BOOLEAN, a \in NetEvents, b \in NetEvents}

clish_access_callback(in) == in.access

clish_script_callback(in) == [ok |-> in.script, sideEffect |-> in.mutates, ran |-> "script"]

clish_dryrun_callback(in) == [ok |-> TRUE, sideEffect |-> FALSE, ran |-> "dryrun"]

\* the config hook: the delta goes to the daemon and the acknowledgement
\* comes back over the session
clish_config_callback(in, s) == ktp_session_exchange(s, in.netS, in.netR)

\* a hook slot that is NULL succeeds and does nothing
CallAccess(hooks, in) ==
    IF hooks.access_fn = "NULL" THEN TRUE ELSE clish_access_callback(in)

CallScript(hooks, in) ==
    IF hooks.script_fn = "NULL" THEN [ok |-> TRUE, sideEffect |-> FALSE, ran |-> "none"]
    ELSE IF hooks.script_fn = "clish_dryrun_callback" THEN clish_dryrun_callback(in)
    ELSE clish_script_callback(in)

CallConfig(hooks, in, s) ==
    IF hooks.config_fn = "NULL" THEN [session |-> s, err |-> "None", io |-> FALSE]
    ELSE clish_config_callback(in, s)

\* one command line through the pipeline resolve -> access -> script -> config
NoStage(s) ==
    [result |-> "Failure", kind |-> "None", script |-> "none", scriptOk |-> FALSE,
     sideEffect |-> FALSE, configInvoked |-> FALSE, io |-> FALSE, delivered |-> FALSE,
     session |-> s]

clish_shell_execute(hooks, in, s) ==
    IF in.resolve # "ok" THEN [NoStage(s) EXCEPT !.kind = in.resolve]
    ELSE IF ~CallAccess(hooks, in) THEN [NoStage(s) EXCEPT !.kind = "AccessDenied"]
    ELSE LET sc == CallScript(hooks, in)
             ran == [NoStage(s) EXCEPT !.script = sc.ran, !.scriptOk = sc.ok,
                                      !.sideEffect = sc.sideEffect]
         IN  IF ~sc.ok THEN [ran EXCEPT !.kind = "ScriptError"]
             ELSE IF ~in.hasConfig THEN [ran EXCEPT !.result = "Success"]
             ELSE LET cf == CallConfig(hooks, in, s)
                      sent == [ran EXCEPT !.configInvoked = TRUE, !.io = cf.io,
                                          !.delivered = cf.io /\ ~NetClosed(in.netS),
                                          !.session = cf.session]
                  IN  IF cf.err \in {"ConnectionLost", "NotConnected"}
                      THEN [sent EXCEPT !.result = "Fatal", !.kind = cf.err]
                      ELSE [sent EXCEPT !.result = "Success"]

\* ======================================================== input sources

Source(kind, arg, soe) == [kind |-> kind, arg |-> arg, stop_on_error |-> soe, pos |-> 0]

\* clish_shell_push_file(): CannotOpen leaves the stack as it was
clish_shell_push_file(stk, arg, readable, soe) ==
    IF ~readable THEN stk ELSE <<Source("file", arg, soe)>> \o stk

clish_shell_push_fd(stk, soe) == <<Source("fd", 0, soe)>> \o stk

\* for (i = argc - 1; i >= optind; i--) clish_shell_push_file(shell, argv[i], stop_on_error);
\* the file arguments are numbered 1..nfiles from the left
RECURSIVE PushDown(_, _, _, _)
PushDown(i, stk, readable, soe) ==
    IF i < 1 THEN stk
    ELSE PushDown(i - 1, clish_shell_push_file(stk, i, i \in readable, soe), readable, soe)

RECURSIVE PushUp(_, _, _, _, _)
PushUp(i, n, stk, readable, soe) ==
    IF i > n THEN stk
    ELSE PushUp(i + 1, n, clish_shell_push_file(stk, i, i \in readable, soe), readable, soe)

PushSources_forward(nfiles, readable, soe) ==
    IF nfiles > 0 THEN PushUp(1, nfiles, <<>>, readable, soe)
    ELSE clish_shell_push_fd(<<>>, soe)

PushSources_both(nfiles, readable, soe) ==
    PushDown(nfiles, clish_shell_push_fd(<<>>, soe), readable, soe)

PushSources_no_soe(nfiles, readable, soe) ==
    IF nfiles > 0 THEN PushDown(nfiles, <<>>, readable, FALSE)
    ELSE clish_shell_push_fd(<<>>, FALSE)

PushSources(nfiles, readable, soe) ==
    IF nfiles > 0 THEN PushDown(nfiles, <<>>, readable, soe)
    ELSE clish_shell_push_fd(<<>>, soe)

\* return result ? 0 : -1;
ExitStatus_zero(res) == EXIT_OK

ExitStatus_inverted(res) == IF res # 0 THEN EXIT_FAIL ELSE EXIT_OK

ExitStatus(res) == IF res # 0 THEN EXIT_OK ELSE EXIT_FAIL

\* ================================================================= main()

\* no delta reached the daemon
NoDelta == [arg |-> 0, idx |-> 0]

NoCmd ==
    [NoStage(NULL) EXCEPT !.result = "None"]
    @@ [arg |-> 0, idx |-> 0, pre |-> "NULL", soe |-> FALSE, delta |-> NoDelta]

Init ==
    /\ pc = "parse"
    /\ stop_on_error = FALSE
    /\ quiet = FALSE
    /\ utf8 = FALSE
    /\ bit8 = FALSE
    /\ my_hooks = my_hooks_init
    /\ outfd = "stdout"
    /\ shell = "none"
    /\ stack = <<>>
    /\ failed = FALSE
    /\ result = RESULT_INIT
    /\ exitStatus = <<>>
    /\ exitPath = "none"
    /\ opt_d = FALSE
    /\ opt_e = FALSE
    /\ argfiles = 0
    /\ session = NULL
    /\ log = <<>>
    /\ last = NoCmd
    /\ errs = {}
    /\ lastOp = NoOp

\* options that set locals the modelled flow never reads:
\* -s -l -b -x -w -i
OtherOpts == {"s", "l", "b", "x", "w", "i"}

Options == {"e", "q", "u", "8", "d", "h", "v", "?"} \cup OtherOpts

\* exit(status) and return status from main alike
Exit(status, path) ==
    /\ pc' = "exited"
    /\ exitStatus' = <<status>>
    /\ exitPath' = path

Running == UNCHANGED <<exitStatus, exitPath>>

\* one turn of the getopt loop
ParseOption ==
    /\ pc = "parse"
    /\ \E opt \in Options \cup {"end"} :
        /\ stop_on_error' = IF opt = "e" THEN TRUE ELSE stop_on_error
        /\ quiet' = IF opt = "q" THEN TRUE ELSE quiet
        /\ utf8' = IF opt = "u" THEN TRUE ELSE utf8
        /\ bit8' = IF opt = "8" THEN TRUE ELSE bit8
        /\ my_hooks' = IF opt = "d" THEN OptDryRun(my_hooks) ELSE my_hooks
        /\ opt_d' = (opt_d \/ opt = "d")
        /\ opt_e' = (opt_e \/ opt = "e")
        /\ CASE opt = "end" -> pc' = "validate" /\ Running
             [] opt = "h" -> Exit(EXIT_OK, "help")
             [] opt = "v" -> Exit(EXIT_OK, "version")
             [] opt = "?" -> Exit(EXIT_FAIL, "usage")
             [] OTHER -> UNCHANGED pc /\ Running
    /\ UNCHANGED <<outfd, shell, stack, failed, result, session, log, last,
                   errs, lastOp, argfiles>>

\* if (utf8 && bit8) return -1;
Validate ==
    /\ pc = "validate"
    /\ IF utf8 /\ bit8 THEN Exit(EXIT_FAIL, "validate")
       ELSE pc' = "create" /\ Running
    /\ UNCHANGED <<stop_on_error, quiet, utf8, bit8, my_hooks, outfd, shell,
                   stack, failed, result, session, log, last, errs, lastOp, opt_d,
                   opt_e, argfiles>>

\* if (quiet) outfd = fopen(...); shell = clish_shell_new(...); if (!shell) return -1;
CreateShell ==
    /\ pc = "create"
    /\ outfd' = IF quiet THEN "open" ELSE outfd
    /\ \E created \in BOOLEAN :
        IF created
        THEN shell' = "live" /\ pc' = "configure" /\ Running
        ELSE Exit(EXIT_FAIL, "create") /\ UNCHANGED shell
    /\ UNCHANGED <<stop_on_error, quiet, utf8, bit8, my_hooks, stack, failed,
                   result, session, log, last, errs, lastOp, opt_d,
                   opt_e, argfiles>>

\* clish_shell__set_socket() and the other setters between shell creation
\* and startup: the socket to the daemon is connected (sock < 0 when that
\* fails), the session created on it and the authentication exchange run
ConfigureShell ==
    /\ pc = "configure"
    /\ \E sock \in ConnectResults, allocOk \in BOOLEAN, netS \in NetEvents,
          netR \in NetEvents, accepted \in BOOLEAN :
        LET s == ktp_session_new(sock, allocOk)
            a == ktp_session_auth(s, netS, netR, accepted)
        IN  session' = a.session
    /\ pc' = "startup"
    /\ UNCHANGED <<stop_on_error, quiet, utf8, bit8, my_hooks, outfd, shell,
                   stack, failed, result, exitStatus, exitPath, opt_d, log, last, errs, lastOp,
                   opt_e, argfiles>>

\* running = clish_shell_startup(shell); if (!running) { delete; return -1; }
Startup ==
    /\ pc = "startup"
    /\ \E running \in BOOLEAN :
        IF running
        THEN pc' = "push" /\ Running /\ UNCHANGED <<shell, session>>
        ELSE /\ shell' = "deleted"
             /\ session' = ktp_session_free(session)
             /\ Exit(EXIT_FAIL, "startup")
    /\ UNCHANGED <<stop_on_error, quiet, utf8, bit8, my_hooks, outfd,
                   stack, failed, result, log, last, errs, lastOp, opt_d,
                   opt_e, argfiles>>

\* if (optind < argc) push the files, last argument first; else push stdin
PushInput ==
    /\ pc = "push"
    /\ \E n \in 0 .. MaxFiles :
        \E readable \in SUBSET (1 .. n) :
            /\ argfiles' = n
            /\ stack' = PushSources(n, readable, stop_on_error)
    /\ pc' = "loop"
    /\ UNCHANGED <<stop_on_error, quiet, utf8, bit8, my_hooks, outfd, shell,
                   failed, result, exitStatus, exitPath, opt_d, session, log, last, errs, lastOp,
                   opt_e>>

\* ------------------------------------------------------- clish_shell_loop

Advance(stk) == <<[Head(stk) EXCEPT !.pos = @ + 1]>> \o Tail(stk)

\* clish_shell_pop_file(): the top source is closed and leaves the stack
clish_shell_pop_file(stk) == Tail(stk)

\* what the loop does with its stack and its aggregate after a command of the
\* top source ended with res
AfterCommand_same_source(stk, agg, res) ==
    IF res = "Fatal" THEN [stack |-> <<>>, failed |-> TRUE]
    ELSE IF res = "Failure" /\ Head(stk).stop_on_error
    THEN [stack |-> Advance(stk), failed |-> TRUE]
    ELSE [stack |-> Advance(stk), failed |-> agg]

AfterCommand_drop_all(stk, agg, res) ==
    IF res = "Fatal" THEN [stack |-> <<>>, failed |-> TRUE]
    ELSE IF res = "Failure" /\ Head(stk).stop_on_error
    THEN [stack |-> <<>>, failed |-> TRUE]
    ELSE [stack |-> Advance(stk), failed |-> agg]

AfterCommand_any_failure(stk, agg, res) ==
    IF res = "Fatal" THEN [stack |-> <<>>, failed |-> TRUE]
    ELSE IF res = "Failure" /\ Head(stk).stop_on_error
    THEN [stack |-> clish_shell_pop_file(stk), failed |-> TRUE]
    ELSE [stack |-> Advance(stk), failed |-> agg \/ res = "Failure"]

AfterCommand(stk, agg, res) ==
    IF res = "Fatal" THEN [stack |-> <<>>, failed |-> TRUE]
    ELSE IF res = "Failure" /\ Head(stk).stop_on_error
    THEN [stack |-> clish_shell_pop_file(stk), failed |-> TRUE]
    ELSE [stack |-> Advance(stk), failed |-> agg]

\* the line the loop reads next from the source: its source and line number
CommandId(top) == [arg |-> top.arg, idx |-> top.pos + 1]

\* the delta the config stage sends: that of the command being executed
ConfigDelta_previous(top) == [arg |-> top.arg, idx |-> top.pos]

ConfigDelta(top) == CommandId(top)

\* one turn of the loop: a line is read from the top source and run through
\* the pipeline, or the source is at its end and is popped
LoopStep ==
    /\ pc = "loop"
    /\ stack # <<>>
    /\ \E eof \in BOOLEAN :
        IF eof \/ Head(stack).pos >= MaxCmds
        THEN /\ stack' = clish_shell_pop_file(stack)
             /\ UNCHANGED <<failed, session, log, last, errs>>
        ELSE \E in \in CmdInputs :
            LET top == Head(stack)
                r == clish_shell_execute(my_hooks, in, session)
                nxt == AfterCommand(stack, failed, r.result)
                id == CommandId(top)
            IN  /\ stack' = nxt.stack
                /\ failed' = nxt.failed
                /\ session' = r.session
                /\ log' = Append(log, id)
                /\ last' = [r EXCEPT !.session = NULL]
                           @@ id @@ [pre |-> session.state, soe |-> top.stop_on_error,
                                     delta |-> IF r.delivered THEN ConfigDelta(top)
                                               ELSE NoDelta]
                /\ errs' = IF r.result = "Success" THEN errs
                           ELSE errs \cup {<<top.arg, r.result>>}
    /\ UNCHANGED <<pc, stop_on_error, quiet, utf8, bit8, my_hooks, outfd, shell,
                   result, exitStatus, exitPath, opt_d, lastOp,
                   opt_e, argfiles>>

\* the value clish_shell_loop() returns
LoopResult(agg) == IF agg THEN BOOL_FALSE ELSE BOOL_TRUE

\* result = clish_shell_loop(shell): no source is left
LoopReturn ==
    /\ pc = "loop"
    /\ stack = <<>>
    /\ result' = LoopResult(failed)
    /\ pc' = "cleanup"
    /\ UNCHANGED <<stop_on_error, quiet, utf8, bit8, my_hooks, outfd, shell,
                   stack, failed, exitStatus, exitPath, opt_d, session, log, last, errs, lastOp,
                   opt_e, argfiles>>

\* clish_shell_delete(shell); if (quiet) fclose(outfd); return result ? 0 : -1;
Cleanup ==
    /\ pc = "cleanup"
    /\ shell' = "deleted"
    /\ session' = ktp_session_free(session)
    /\ outfd' = IF quiet THEN "closed" ELSE outfd
    /\ Exit(ExitStatus(result), "return")
    /\ UNCHANGED <<stop_on_error, quiet, utf8, bit8, my_hooks, stack, failed,
                   result, log, last, errs, lastOp, opt_d,
                   opt_e, argfiles>>

Next ==
    \/ ParseOption
    \/ Validate
    \/ CreateShell
    \/ ConfigureShell
    \/ Startup
    \/ PushInput
    \/ LoopStep
    \/ LoopReturn
    \/ Cleanup

Spec == Init /\ [][Next]_vars

\* ------------------------------------------------ the session used alone
\* any caller, any order of operations on one session handle

SessionNew ==
    /\ session = NULL
    /\ \E sock \in Socks, allocOk \in BOOLEAN :
        LET s == ktp_session_new(sock, allocOk)
        IN  /\ session' = s
            /\ lastOp' = OpRec("new", session,
                                [NoIn EXCEPT !.sock = sock, !.alloc = allocOk],
                                IF s = NULL THEN "NoSession" ELSE "None", FALSE, 0)
    /\ UNCHANGED mainVars

SessionFree ==
    /\ session' = ktp_session_free(session)
    /\ lastOp' = OpRec("free", session, NoIn, "None", FALSE, 0)
    /\ UNCHANGED mainVars

SessionConnected ==
    /\ session # NULL
    /\ lastOp' = OpRec("connected", session, NoIn, "None", FALSE,
                        IF ktp_session_connected(session) THEN BOOL_TRUE ELSE BOOL_FALSE)
    /\ UNCHANGED <<session, mainVars>>

SessionGetSocket ==
    /\ session # NULL
    /\ lastOp' = OpRec("get_socket", session, NoIn, "None", FALSE,
                        ktp_session_get_socket(session))
    /\ UNCHANGED <<session, mainVars>>

SessionSend ==
    /\ session # NULL
    /\ \E net \in NetEvents :
        LET r == ktp_session_send(session, net)
        IN  /\ session' = r.session
            /\ lastOp' = OpRec("send", session, [NoIn EXCEPT !.netS = net], r.err, r.io, 0)
    /\ UNCHANGED mainVars

SessionReceive ==
    /\ session # NULL
    /\ \E net \in NetEvents :
        LET r == ktp_session_receive(session, net)
        IN  /\ session' = r.session
            /\ lastOp' = OpRec("receive", session, [NoIn EXCEPT !.netR = net], r.err, r.io, 0)
    /\ UNCHANGED mainVars

SessionAuth ==
    /\ session # NULL
    /\ \E netS \in NetEvents, netR \in NetEvents, accepted \in BOOLEAN :
        LET r == ktp_session_auth(session, netS, netR, accepted)
        IN  /\ session' = r.session
            /\ lastOp' = OpRec("auth", session,
                                [NoIn EXCEPT !.netS = netS, !.netR = netR,
                                             !.accepted = accepted],
                                r.err, r.io, 0)
    /\ UNCHANGED mainVars

SessionNext ==
    \/ SessionNew
    \/ SessionFree
    \/ SessionConnected
    \/ SessionGetSocket
    \/ SessionSend
    \/ SessionReceive
    \/ SessionAuth

SessionSpec == Init /\ [][SessionNext]_vars

\* ================================================================ claims

C2_DisconnectedNoIO ==
    (lastOp.op \in {"send", "receive"} /\ lastOp.pre = KTP_SESSION_STATE_DISCONNECTED) =>
        /\ lastOp.err = "NotConnected"
        /\ ~lastOp.io
        /\ session.state = KTP_SESSION_STATE_DISCONNECTED

C2_Witness ==
    /\ lastOp.op = "receive"
    /\ lastOp.pre = KTP_SESSION_STATE_DISCONNECTED
    /\ lastOp.err = "NotConnected"

\* C10: once a session is Disconnected no operation gives it another state;
\* the only thing that still happens to it is its destruction by free.
C10_DisconnectedTerminal ==
    [][session.state = KTP_SESSION_STATE_DISCONNECTED =>
          \/ session' = session
          \/ session' = NULL /\ lastOp'.op = "free"]_vars

C10_Witness ==
    /\ lastOp.op = "auth"
    /\ lastOp.pre = KTP_SESSION_STATE_DISCONNECTED
    /\ lastOp.in.accepted
    /\ ~NetClosed(lastOp.in.netS)
    /\ ~NetClosed(lastOp.in.netR)
    /\ session.state = KTP_SESSION_STATE_DISCONNECTED

\* a command was executed in this step
Executes == log' # log

Errors == {"Failure", "Fatal"}

HasError(arg) == \E r \in Errors : <<arg, r>> \in errs

FatalSeen == \E a \in 0 .. MaxFiles : <<a, "Fatal">> \in errs

FailureSeen == \E a \in 0 .. MaxFiles : <<a, "Failure">> \in errs

InStack(arg) == \E i \in DOMAIN stack : stack[i].arg = arg

\* C3: in a source whose stop_on_error flag is set, no command is executed
\* once a command of that source has ended in Failure or Fatal: the failing
\* command takes the source off the stack.
C3_StopOnError ==
    [][/\ (Executes /\ Head(stack).stop_on_error) => ~HasError(Head(stack).arg)
       /\ (Executes /\ Head(stack).stop_on_error /\ last'.result \in Errors)
            => ~\E i \in DOMAIN stack' : stack'[i].arg = Head(stack).arg]_vars

C3_Witness ==
    /\ pc = "loop"
    /\ last.soe
    /\ last.result = "Failure"
    /\ last.idx < MaxCmds
    /\ ~InStack(last.arg)
    /\ stack # <<>>

DryRun == my_hooks.script_fn = "clish_dryrun_callback"

C6_FileOrder ==
    /\ \A i, j \in DOMAIN stack : i < j => stack[i].arg < stack[j].arg
    /\ \A i, j \in DOMAIN log : i < j => log[i].arg <= log[j].arg
    /\ (log # <<>> /\ stack # <<>>) => log[Len(log)].arg <= Head(stack).arg

C6_Witness ==
    /\ Len(log) >= 2
    /\ log[1].arg = 1
    /\ log[Len(log)].arg = 2

\* C7: when the socket is lost during a command's config stage the command
\* ends Fatal with ConnectionLost and no source is left; after a Fatal no
\* command is executed, the loop returns failure and the process exits with
\* a non-zero status.
C7_FatalStops ==
    /\ [][(pc = "loop" /\ session.state # KTP_SESSION_STATE_DISCONNECTED
              /\ session'.state = KTP_SESSION_STATE_DISCONNECTED)
            => /\ Executes
               /\ last'.configInvoked
               /\ last'.result = "Fatal"
               /\ last'.kind = "ConnectionLost"
               /\ stack' = <<>>]_vars
    /\ [][FatalSeen => ~Executes]_vars
    /\ [](FatalSeen =>
             /\ stack = <<>>
             /\ last.result = "Fatal"
             /\ pc = "cleanup" => result = BOOL_FALSE
             /\ pc = "exited" => exitStatus # <<EXIT_OK>>)

C7_Witness ==
    /\ pc = "exited"
    /\ Len(log) = 3
    /\ last.kind = "ConnectionLost"
    /\ last.arg = 2
    /\ last.idx = 1
    /\ errs = {<<2, "Fatal">>}
    /\ exitStatus # <<EXIT_OK>>

C9_AsStated ==
    pc = "exited" => (exitStatus = <<EXIT_OK>> <=> result = BOOL_TRUE)

\* C9, amended: when main returns after the loop, the exit status is 0
\* exactly when the loop's result is success and -1 otherwise; of the paths
\* that end before the loop runs, -h and -v exit with 0 and the others (an
\* unknown option, -u with -8, no shell, no startup) with -1.
C9_ExitStatus ==
    pc = "exited" =>
        IF exitPath = "return"
        THEN /\ result \in {BOOL_TRUE, BOOL_FALSE}
             /\ exitStatus = <<EXIT_OK>> <=> result = BOOL_TRUE
             /\ exitStatus = <<EXIT_FAIL>> <=> result = BOOL_FALSE
        ELSE /\ result = RESULT_INIT
             /\ log = <<>>
             /\ exitStatus = IF exitPath \in {"help", "version"}
                             THEN <<EXIT_OK>> ELSE <<EXIT_FAIL>>

C9_Witness ==
    /\ pc = "exited"
    /\ exitPath = "return"
    /\ result = BOOL_FALSE
    /\ exitStatus = <<EXIT_FAIL>>

\* C11: for an existing session ktp_session_connected returns false when the
\* state is Disconnected and true in every other state, and the session is
\* afterwards what it was before the call.
C11_IsConnected ==
    lastOp.op = "connected" =>
        /\ lastOp.ret = IF lastOp.pre = KTP_SESSION_STATE_DISCONNECTED
                        THEN BOOL_FALSE ELSE BOOL_TRUE
        /\ session # NULL
        /\ session.state = lastOp.pre

C11_Witness ==
    /\ lastOp.op = "connected"
    /\ lastOp.pre = KTP_SESSION_STATE_DISCONNECTED
    /\ lastOp.ret = BOOL_FALSE
    /\ session.state = KTP_SESSION_STATE_DISCONNECTED

C14_FilesOrInteractive ==
    /\ [][(pc = "push" /\ pc' = "loop") =>
            IF argfiles' > 0
            THEN \A i \in DOMAIN stack' : stack'[i].kind = "file"
            ELSE Len(stack') = 1 /\ stack'[1].kind = "fd"]_vars
    /\ [](\A i \in DOMAIN stack : \A j \in DOMAIN stack : stack[i].kind = stack[j].kind)
    /\ [](\A i \in DOMAIN stack :
             stack[i].kind = IF argfiles > 0 THEN "file" ELSE "fd")
    /\ [](\A i \in DOMAIN log : (log[i].arg = 0) <=> (argfiles = 0))

C14_Witness ==
    /\ pc = "loop"
    /\ argfiles = 2
    /\ Len(stack) = 2
    /\ stack[1].kind = "file"
    /\ stack[2].kind = "file"
    /\ Len(log) = 1

C16_OneScriptHook ==
    /\ [][pc # "parse" => my_hooks' = my_hooks]_vars
    /\ [](my_hooks.script_fn \in {"clish_script_callback", "clish_dryrun_callback"})
    /\ [](pc = "parse" => shell = "none" /\ log = <<>>)
    /\ [](pc # "parse" => (DryRun <=> opt_d))

C16_Witness ==
    /\ pc = "exited"
    /\ exitPath = "return"
    /\ opt_d
    /\ DryRun
    /\ Len(log) = 2

\* C17, as stated: files named later on the command line execute first.
C17_AsStated ==
    \A i \in DOMAIN log : \A j \in DOMAIN log : i < j => log[i].arg >= log[j].arg

\* C17, amended: a command always comes from the source on top of the stack,
\* the one pushed last, and sources leave the stack from the top only; the
\* files are pushed from the last named to the first, so every source below
\* the top was named later and the files named earlier execute first.
C17_StackOrder ==
    [][Executes =>
         /\ log'[Len(log')].arg = Head(stack).arg
         /\ \A i \in 2 .. Len(stack) : Head(stack).arg < stack[i].arg
         /\ \A i \in DOMAIN log : log[i].arg <= Head(stack).arg
         /\ \/ stack' = <<>>
            \/ stack' = Tail(stack)
            \/ stack' = Advance(stack)]_vars

C17_Witness ==
    /\ Len(log) = 2
    /\ log[1].arg = 1
    /\ log[2].arg = 2
    /\ argfiles = 2

\* the loop's result is failure
LoopFailed == FatalSeen \/ (stop_on_error /\ FailureSeen)

C19_SameStopOnError ==
    /\ stop_on_error = opt_e
    /\ \A i \in DOMAIN stack : stack[i].stop_on_error = opt_e
    /\ last.idx > 0 => last.soe = opt_e

C19_Witness ==
    /\ pc = "loop"
    /\ opt_e
    /\ Len(stack) = 2
    /\ stack[1].stop_on_error
    /\ stack[2].stop_on_error
    /\ last.idx > 0

\* C20, as stated: in quiet mode the stream opened before the shell is
\* created is closed on every return of main that follows: no shell, no
\* startup, the end of the loop.
C20_AsStated ==
    (pc = "exited" /\ quiet /\ exitPath \in {"create", "startup", "return"})
        => outfd = "closed"

====
